---- MODULE Spec2Model ----
(***************************************************************************)
(* cub::DispatchSpmv (cub/device/dispatch/dispatch_spmv.cuh).              *)
(*                                                                         *)
(* The model follows one caller that calls the public Dispatch overload    *)
(* again and again.  Every call walks through the statements of the public *)
(* overload and of the internal overload; every call into the CUDA runtime *)
(* is a step whose result (a value or a failure) is chosen by the runtime. *)
(* int is the 32-bit two's complement int of the host, size_t is 64 bits   *)
(* wide and is kept as four 16-bit limbs, most significant first.          *)
(***************************************************************************)
EXTENDS Integers, Sequences, FiniteSets, TLC

VARIABLES build, pc, args, loc, fx, prev

vars == <<build, pc, args, loc, fx, prev>>

-----------------------------------------------------------------------------
(* int: 32-bit signed arithmetic                                           *)

INT_MAX == 2147483647

INT_MIN == -INT_MAX - 1

\* a + b in int; an overflowing sum wraps (two's complement)
AddInt(a, b) ==
    IF b >= 0
    THEN IF a > INT_MAX - b THEN ((a - INT_MAX) + (b - INT_MAX)) - 2 ELSE a + b
    ELSE IF a < INT_MIN - b THEN ((a + INT_MAX) + (b + INT_MAX)) + 2 ELSE a + b

\* a * b in int; every pair the dispatcher multiplies stays far inside int
MulInt(a, b) == a * b

\* a / b in int for b # 0: the quotient is truncated toward zero
DivInt(a, b) ==
    IF b > 0
    THEN IF a >= 0 \/ a % b = 0 THEN a \div b ELSE (a \div b) + 1
    ELSE LET nb == -b
         IN  IF a >= 0 \/ a % nb = 0 THEN -(a \div nb) ELSE -((a \div nb) + 1)

-----------------------------------------------------------------------------
(* size_t: 64-bit unsigned arithmetic on limbs <<l3, l2, l1, l0>>           *)

LIMB == 65536

SzNorm(a3, a2, a1, a0) ==
    LET c0 == a0 \div LIMB
        t1 == a1 + c0
        c1 == t1 \div LIMB
        t2 == a2 + c1
        c2 == t2 \div LIMB
        t3 == a3 + c2
    IN  <<t3 % LIMB, t2 % LIMB, t1 % LIMB, a0 % LIMB>>

\* (size_t) n for an int n: a negative n is sign-extended to 64 bits
SzOfInt(n) ==
    IF n >= 0
    THEN <<0, 0, n \div LIMB, n % LIMB>>
    ELSE LET m == n - INT_MIN
         IN  <<LIMB - 1, LIMB - 1, 32768 + (m \div LIMB), m % LIMB>>

SzAdd(s, t) == SzNorm(s[1] + t[1], s[2] + t[2], s[3] + t[3], s[4] + t[4])

\* s * k modulo 2^64, for a small k (a sizeof)
SzMul(s, k) == SzNorm(s[1] * k, s[2] * k, s[3] * k, s[4] * k)

SzLess(s, t) ==
    \E i \in 1..4 : s[i] < t[i] /\ \A j \in 1..(i - 1) : s[j] = t[j]

SzZero == <<0, 0, 0, 0>>

\* s - 1 modulo 2^64
SzDec(s) == SzAdd(s, <<LIMB - 1, LIMB - 1, LIMB - 1, LIMB - 1>>)

\* s + 1 modulo 2^64
SzInc(s) == SzAdd(s, <<0, 0, 0, 1>>)

-----------------------------------------------------------------------------
(* Tuning policies                                                         *)

Policy110 == [name |-> "Policy110", BLOCK_THREADS |-> 128, ITEMS_PER_THREAD |-> 7]

Policy200 == [Policy110 EXCEPT !.name = "Policy200"]

Policy300 == [Policy110 EXCEPT !.name = "Policy300"]

Policy350 == [name |-> "Policy350", BLOCK_THREADS |-> 256, ITEMS_PER_THREAD |-> 17]

Policy500 == [Policy110 EXCEPT !.name = "Policy500"]

\* the policy of the current PTX compiler pass (the #if chain on CUB_PTX_ARCH)
PtxPolicy(CUB_PTX_ARCH) ==
    IF CUB_PTX_ARCH >= 500 THEN Policy500
    ELSE IF CUB_PTX_ARCH >= 350 THEN Policy350
    ELSE IF CUB_PTX_ARCH >= 300 THEN Policy300
    ELSE IF CUB_PTX_ARCH >= 200 THEN Policy200
    ELSE Policy110

\* KernelConfig::Init<AgentPolicyT>(): fills the configuration, returns cudaSuccess
KernelConfigInit(AgentPolicyT) ==
    [error  |-> "cudaSuccess",
     policy |-> AgentPolicyT.name,
     config |-> [block_threads    |-> AgentPolicyT.BLOCK_THREADS,
                 items_per_thread |-> AgentPolicyT.ITEMS_PER_THREAD]]

\* InitConfigs with the comparison against 350 written > instead of >=
InitConfigsStrict(CUB_PTX_ARCH, ptx_version, agent_spmv_config) ==
    IF CUB_PTX_ARCH > 0 THEN KernelConfigInit(PtxPolicy(CUB_PTX_ARCH))
    ELSE IF ptx_version >= 500 THEN KernelConfigInit(Policy500)
    ELSE IF ptx_version > 350 THEN KernelConfigInit(Policy350)
    ELSE IF ptx_version >= 300 THEN KernelConfigInit(Policy300)
    ELSE IF ptx_version >= 200 THEN KernelConfigInit(Policy200)
    ELSE IF ptx_version >= 110 THEN KernelConfigInit(Policy110)
    ELSE [error  |-> "cudaErrorNotSupported",
          policy |-> "none",
          config |-> agent_spmv_config]

\* InitConfigs(ptx_version, agent_spmv_config): the status it returns, the
\* policy it initialised the configuration from ("none": the configuration
\* is left as it was), and the configuration afterwards
InitConfigs(CUB_PTX_ARCH, ptx_version, agent_spmv_config) ==
    IF CUB_PTX_ARCH > 0 THEN KernelConfigInit(PtxPolicy(CUB_PTX_ARCH))
    ELSE IF ptx_version >= 500 THEN KernelConfigInit(Policy500)
    ELSE IF ptx_version >= 350 THEN KernelConfigInit(Policy350)
    ELSE IF ptx_version >= 300 THEN KernelConfigInit(Policy300)
    ELSE IF ptx_version >= 200 THEN KernelConfigInit(Policy200)
    ELSE IF ptx_version >= 110 THEN KernelConfigInit(Policy110)
    ELSE [error  |-> "cudaErrorNotSupported",
          policy |-> "none",
          config |-> agent_spmv_config]

-----------------------------------------------------------------------------
(* Scratch sizing                                                          *)

\* GridQueue<int>::AllocationSize(): one fixed-size progress-queue descriptor
GridQueueAllocationSize == 8

ALIGN_BYTES == 256

\* s rounded up to the next multiple of ALIGN_BYTES
SzAlign(s) ==
    LET u == SzAdd(s, SzOfInt(ALIGN_BYTES - 1))
    IN  <<u[1], u[2], u[3], u[4] - (u[4] % ALIGN_BYTES)>>

\* AliasTemporaries: the offsets of the three sub-regions, in the order
\* requested, and the bytes needed for all of them
AllocationOffsets(allocation_sizes) ==
    <<SzZero,
      SzAlign(allocation_sizes[1]),
      SzAdd(SzAlign(allocation_sizes[1]), SzAlign(allocation_sizes[2]))>>

BytesNeeded(allocation_sizes) ==
    SzAdd(AllocationOffsets(allocation_sizes)[3], SzAlign(allocation_sizes[3]))

\* AliasTemporaries(d_temp_storage, temp_storage_bytes, allocations,
\* allocation_sizes): the status, temp_storage_bytes afterwards, whether it
\* was written, and the sub-regions it aliased (none on a size query or on
\* a buffer that is too small)
AliasTemporaries(d_temp_storage, temp_storage_bytes, allocation_sizes) ==
    LET bytes_needed == BytesNeeded(allocation_sizes)
    IN  IF d_temp_storage = "NULL"
        THEN [error |-> "cudaSuccess", temp_storage_bytes |-> bytes_needed,
              written |-> TRUE, allocations |-> <<>>]
        ELSE IF SzLess(temp_storage_bytes, bytes_needed)
        THEN [error |-> "AllocationSizingError",
              temp_storage_bytes |-> temp_storage_bytes,
              written |-> FALSE, allocations |-> <<>>]
        ELSE [error |-> "cudaSuccess", temp_storage_bytes |-> temp_storage_bytes,
              written |-> FALSE,
              allocations |-> AllocationOffsets(allocation_sizes)]

\* int tile_size = block_threads * items_per_thread
TileSize(agent_spmv_config) ==
    MulInt(agent_spmv_config.block_threads, agent_spmv_config.items_per_thread)

\* work_items without the row-end item
WorkItemsNoRowEnd(num_rows, num_cols) == AddInt(num_rows, num_cols)

\* int work_items = (num_rows + 1) + num_cols
WorkItems(num_rows, num_cols) == AddInt(AddInt(num_rows, 1), num_cols)

\* the grid size clamped to the number of SMs the runtime reported
GridSizeClamped(work_items, tile_size) ==
    LET g == DivInt(AddInt(AddInt(work_items, tile_size), -1), tile_size)
    IN  IF g > loc.sm_count THEN loc.sm_count ELSE g

\* int agent_spmv_grid_size = (work_items + tile_size - 1) / tile_size
GridSize(work_items, tile_size) ==
    DivInt(AddInt(AddInt(work_items, tile_size), -1), tile_size)

\* size_t allocation_sizes[3]
AllocationSizes(agent_spmv_grid_size, sizeof_OffsetT, sizeof_ValueT) ==
    <<SzMul(SzOfInt(agent_spmv_grid_size), sizeof_OffsetT),
      SzMul(SzOfInt(agent_spmv_grid_size), sizeof_ValueT),
      SzOfInt(GridQueueAllocationSize)>>

-----------------------------------------------------------------------------
(* Inputs                                                                  *)

\* Builds: the host pass (CUB_PTX_ARCH = 0, CUB_RUNTIME_ENABLED) and device
\* passes, where CUB_RUNTIME_ENABLED needs dynamic parallelism (sm_35 and up)
Builds ==
    { b \in [CUB_PTX_ARCH : {0, 100, 350, 520}, CUB_RUNTIME_ENABLED : BOOLEAN,
             sizeof_OffsetT : {4}, sizeof_ValueT : {4, 8}] :
        /\ b.CUB_PTX_ARCH = 0 => b.CUB_RUNTIME_ENABLED
        /\ (b.CUB_PTX_ARCH > 0 /\ b.CUB_RUNTIME_ENABLED) => b.CUB_PTX_ARCH >= 350 }

\* the host pass and a device pass for every PTX version of PtxVersionsAll
BuildsAll ==
    { b \in [CUB_PTX_ARCH : {0} \cup {100, 109, 110, 199, 200, 299, 300, 349,
                                      350, 499, 500, 520},
             CUB_RUNTIME_ENABLED : BOOLEAN,
             sizeof_OffsetT : {4}, sizeof_ValueT : {4}] :
        /\ b.CUB_PTX_ARCH = 0 => b.CUB_RUNTIME_ENABLED
        /\ (b.CUB_PTX_ARCH > 0 /\ b.CUB_RUNTIME_ENABLED) => b.CUB_PTX_ARCH >= 350 }

Rows == {0, 895, 1000, 100000, 2147483000, INT_MAX}

Cols == {0, 1000, INT_MAX}

Nonzeros == {0, 5000}

Streams == {0, 1}

\* PTX versions the runtime reports for the kernel
PtxVersions == {100, 350, 520}

\* every threshold, the value below it, and values between and above
PtxVersionsAll == {100, 109, 110, 199, 200, 299, 300, 349, 350, 499, 500, 520}

SmCounts == {1, 80}

SmOccupancies == {1, 8}

\* what an uninitialised KernelConfig can hold
GarbageConfigs ==
    { [block_threads |-> 0, items_per_thread |-> 0],
      [block_threads |-> 128, items_per_thread |-> 7],
      [block_threads |-> -1, items_per_thread |-> 3] }

NoPrev == [kind |-> "none"]

Locals0 ==
    [ptx_version |-> 0,
     agent_spmv_config |-> [block_threads |-> 0, items_per_thread |-> 0],
     policy |-> "none", init_error |-> "cudaSuccess",
     sm_count |-> 0, tile_size |-> 0, work_items |-> 0,
     agent_spmv_sm_occupancy |-> 0, agent_spmv_occupancy |-> 0,
     agent_spmv_grid_size |-> 0,
     allocation_sizes |-> <<SzZero, SzZero, SzZero>>,
     allocations |-> <<>>,
     error |-> "cudaSuccess"]

Effects0 ==
    [launches |-> <<>>, peeks |-> 0, syncs |-> 0, logs |-> <<>>, written |-> FALSE]

Args0 ==
    [d_temp_storage |-> "NULL", temp_storage_bytes |-> SzZero,
     num_rows |-> 0, num_cols |-> 0, num_nonzeros |-> 0,
     stream |-> 0, debug_synchronous |-> FALSE]

Init ==
    /\ build \in Builds
    /\ pc = "idle"
    /\ args = Args0
    /\ loc = Locals0
    /\ fx = Effects0
    /\ prev = NoPrev

-----------------------------------------------------------------------------
(* The caller                                                              *)

\* what the caller's temp_storage_bytes holds on entry.  On a size query it
\* is whatever the variable held; with a buffer it is the buffer's size: the
\* size queried earlier, one byte less or one byte more; a caller that
\* noted no size passes no bytes or a buffer of 1 MiB
Capacities(d_temp_storage) ==
    IF prev.kind = "none" THEN {SzZero, SzOfInt(1048576)}
    ELSE IF d_temp_storage = "NULL" THEN {SzZero, SzInc(prev.bytes)}
    ELSE {prev.bytes, SzDec(prev.bytes), SzInc(prev.bytes)}

\* the caller calls the public Dispatch
Call(RowSet, ColSet, NnzSet, StreamSet, DebugSet) ==
    /\ pc = "idle"
    /\ \E d \in {"NULL", "buf"}, m \in RowSet, n \in ColSet,
          nnz \in NnzSet, st \in StreamSet, dbg \in DebugSet :
          \E b \in Capacities(d) :
          args' = [d_temp_storage |-> d, temp_storage_bytes |-> b,
                   num_rows |-> m, num_cols |-> n, num_nonzeros |-> nnz,
                   stream |-> st, debug_synchronous |-> dbg]
    /\ loc' = Locals0
    /\ fx' = Effects0
    /\ pc' = "PtxVersion"
    /\ UNCHANGED <<build, prev>>

\* a status leaves the public Dispatch: the do/while is left with error set
Break(e) ==
    /\ loc' = [loc EXCEPT !.error = e]
    /\ pc' = "done"

\* the caller takes the status; record says whether it notes a size it queried
Return(record) ==
    /\ pc = "done"
    /\ pc' = "idle"
    /\ prev' = IF /\ record
                  /\ args.d_temp_storage = "NULL"
                  /\ loc.error = "cudaSuccess"
               THEN [kind |-> "query",
                     num_rows |-> args.num_rows, num_cols |-> args.num_cols,
                     policy |-> loc.policy,
                     work_items |-> loc.work_items,
                     grid_size |-> loc.agent_spmv_grid_size,
                     bytes |-> args.temp_storage_bytes]
               ELSE prev
    /\ args' = Args0
    /\ loc' = Locals0
    /\ fx' = Effects0
    /\ UNCHANGED build

-----------------------------------------------------------------------------
(* Dispatch, the public overload                                           *)

\* ptx_version: probed on the host, CUB_PTX_ARCH on the device
GetPtxVersion(Versions) ==
    /\ pc = "PtxVersion"
    /\ IF build.CUB_PTX_ARCH = 0
       THEN \/ \E v \in Versions :
                  /\ loc' = [loc EXCEPT !.ptx_version = v]
                  /\ pc' = "InitConfigs"
            \/ Break("PtxVersion failed")
       ELSE /\ loc' = [loc EXCEPT !.ptx_version = build.CUB_PTX_ARCH]
            /\ pc' = "InitConfigs"
    /\ UNCHANGED <<build, args, fx, prev>>

\* KernelConfig agent_spmv_config; InitConfigs(ptx_version, agent_spmv_config);
\* the status InitConfigs returns is dropped
DoInitConfigs ==
    /\ pc = "InitConfigs"
    /\ \E garbage \in GarbageConfigs :
          LET r == InitConfigs(build.CUB_PTX_ARCH, loc.ptx_version, garbage)
          IN  loc' = [loc EXCEPT !.agent_spmv_config = r.config,
                                 !.policy = r.policy,
                                 !.init_error = r.error]
    /\ pc' = "Dispatch"
    /\ UNCHANGED <<build, args, fx, prev>>

-----------------------------------------------------------------------------
(* Dispatch, the internal overload                                         *)

\* entry: without CUB_RUNTIME_ENABLED the body is return cudaErrorNotSupported
DispatchEntry ==
    /\ pc = "Dispatch"
    /\ IF build.CUB_RUNTIME_ENABLED
       THEN pc' = "cudaGetDevice" /\ loc' = loc
       ELSE Break("cudaErrorNotSupported")
    /\ UNCHANGED <<build, args, fx, prev>>
\* cudaGetDevice whose failure is assigned to error without the break
GetDeviceNoBreak ==
    /\ pc = "cudaGetDevice"
    /\ \E e \in {"cudaSuccess", "cudaGetDevice failed"} :
          loc' = [loc EXCEPT !.error = e]
    /\ pc' = "SmVersion"
    /\ UNCHANGED <<build, args, fx, prev>>

\* cudaGetDevice(&device_ordinal)
GetDevice ==
    /\ pc = "cudaGetDevice"
    /\ \/ pc' = "SmVersion" /\ loc' = loc
       \/ Break("cudaGetDevice failed")
    /\ UNCHANGED <<build, args, fx, prev>>

\* SmVersion(sm_version, device_ordinal); sm_version is only handed on to
\* MaxSmOccupancy
GetSmVersion ==
    /\ pc = "SmVersion"
    /\ \/ pc' = "cudaDeviceGetAttribute" /\ loc' = loc
       \/ Break("SmVersion failed")
    /\ UNCHANGED <<build, args, fx, prev>>

\* cudaDeviceGetAttribute(&sm_count, ...), then tile_size and work_items
GetSmCount ==
    /\ pc = "cudaDeviceGetAttribute"
    /\ \/ \E c \in SmCounts :
             /\ loc' = [loc EXCEPT
                          !.sm_count = c,
                          !.tile_size = TileSize(loc.agent_spmv_config),
                          !.work_items = WorkItems(args.num_rows, args.num_cols)]
             /\ pc' = "MaxSmOccupancy"
       \/ Break("cudaDeviceGetAttribute failed")
    /\ UNCHANGED <<build, args, fx, prev>>
\* the grid size limited to the device occupancy of the kernel
WithGridSizeOccupancy(l, g) ==
    LET h == IF g > l.agent_spmv_occupancy THEN l.agent_spmv_occupancy ELSE g
    IN  [l EXCEPT !.agent_spmv_grid_size = h,
                  !.allocation_sizes =
                      AllocationSizes(h, build.sizeof_OffsetT, build.sizeof_ValueT)]

\* the grid size and what follows from it
WithGridSize(l, g) ==
    [l EXCEPT !.agent_spmv_grid_size = g,
              !.allocation_sizes =
                  AllocationSizes(g, build.sizeof_OffsetT, build.sizeof_ValueT)]

\* MaxSmOccupancy(...), then agent_spmv_occupancy, agent_spmv_grid_size and
\* allocation_sizes.  Dividing by a tile_size of 0 is undefined: the process
\* traps, or the division yields some value
GetOccupancy ==
    /\ pc = "MaxSmOccupancy"
    /\ \/ \E o \in SmOccupancies :
             LET l == [loc EXCEPT !.agent_spmv_sm_occupancy = o,
                                  !.agent_spmv_occupancy = MulInt(o, loc.sm_count)]
             IN  IF loc.tile_size # 0
                 THEN /\ loc' = WithGridSize(l, GridSize(loc.work_items, loc.tile_size))
                      /\ pc' = "AliasTemporaries"
                 ELSE \/ loc' = l /\ pc' = "trapped"
                      \/ \E g \in {0, -1} :
                            /\ loc' = WithGridSize(l, g)
                            /\ pc' = "AliasTemporaries"
       \/ Break("MaxSmOccupancy failed")
    /\ UNCHANGED <<build, args, fx, prev>>

\* the statements around AliasTemporaries: breakOnError is the break on a
\* failed AliasTemporaries, returnOn the d_temp_storage values on which the
\* call returns cudaSuccess right after it
AliasStep(breakOnError, returnOn) ==
    /\ pc = "AliasTemporaries"
    /\ LET r == AliasTemporaries(args.d_temp_storage, args.temp_storage_bytes,
                                 loc.allocation_sizes)
       IN  /\ args' = [args EXCEPT !.temp_storage_bytes = r.temp_storage_bytes]
           /\ fx' = [fx EXCEPT !.written = r.written]
           /\ loc' = [loc EXCEPT !.error = r.error, !.allocations = r.allocations]
           /\ pc' = IF breakOnError /\ r.error # "cudaSuccess" THEN "done"
                    ELSE IF args.d_temp_storage \in returnOn THEN "done"
                    ELSE "Launch"
    /\ UNCHANGED <<build, prev>>

\* the size query never returns
DoAliasTemporariesNoReturn == AliasStep(TRUE, {})

\* the status of AliasTemporaries is not looked at
DoAliasTemporariesNoBreak == AliasStep(FALSE, {"NULL"})

\* the return is taken on a real buffer too
DoAliasTemporariesReturnsAlways == AliasStep(TRUE, {"NULL", "buf"})

\* if (CubDebug(error = AliasTemporaries(...))) break;
\* if (d_temp_storage == NULL) return cudaSuccess;
DoAliasTemporaries == AliasStep(TRUE, {"NULL"})

\* allocations[i] as the launch reads it: void* allocations[3] holds what
\* AliasTemporaries put there
Allocation(i) ==
    IF i \in DOMAIN loc.allocations THEN loc.allocations[i] ELSE <<>>

\* the log line under debug_synchronous, then agent_spmv_kernel<<<...>>>(...)
Launch ==
    /\ pc = "Launch"
    /\ fx' = [fx EXCEPT
                 !.logs = IF args.debug_synchronous
                          THEN Append(@, [grid |-> loc.agent_spmv_grid_size,
                                          block |-> loc.agent_spmv_config.block_threads,
                                          stream |-> args.stream,
                                          items |-> loc.agent_spmv_config.items_per_thread,
                                          occupancy |-> loc.agent_spmv_sm_occupancy])
                          ELSE @,
                 !.launches = Append(@, [grid |-> loc.agent_spmv_grid_size,
                                         block |-> loc.agent_spmv_config.block_threads,
                                         stream |-> args.stream,
                                         carryout_rows |-> Allocation(1),
                                         runout_values |-> Allocation(2),
                                         num_rows |-> args.num_rows,
                                         num_cols |-> args.num_cols,
                                         num_nonzeros |-> args.num_nonzeros])]
    /\ pc' = "cudaPeekAtLastError"
    /\ UNCHANGED <<build, args, loc, prev>>

\* the launch-error check without its break
PeekAtLastErrorNoBreak ==
    /\ pc = "cudaPeekAtLastError"
    /\ fx' = [fx EXCEPT !.peeks = @ + 1]
    /\ \E e \in {"cudaSuccess", "launch failed"} :
          /\ loc' = [loc EXCEPT !.error = e]
          /\ pc' = IF args.debug_synchronous THEN "SyncStream" ELSE "done"
    /\ UNCHANGED <<build, args, prev>>

\* the launch-error check that launches again after a failed launch
PeekAtLastErrorRetry ==
    /\ pc = "cudaPeekAtLastError"
    /\ fx' = [fx EXCEPT !.peeks = @ + 1]
    /\ \/ /\ loc' = loc
          /\ pc' = IF args.debug_synchronous THEN "SyncStream" ELSE "done"
       \/ /\ Len(fx.launches) < 2
          /\ loc' = [loc EXCEPT !.error = "launch failed"]
          /\ pc' = "Launch"
       \/ Break("launch failed")
    /\ UNCHANGED <<build, args, prev>>
\* the launch-error check followed by the synchronisation in every call
PeekAtLastErrorAlwaysSync ==
    /\ pc = "cudaPeekAtLastError"
    /\ fx' = [fx EXCEPT !.peeks = @ + 1]
    /\ \/ loc' = loc /\ pc' = "SyncStream"
       \/ Break("launch failed")
    /\ UNCHANGED <<build, args, prev>>

\* cudaPeekAtLastError()
PeekAtLastError ==
    /\ pc = "cudaPeekAtLastError"
    /\ fx' = [fx EXCEPT !.peeks = @ + 1]
    /\ \/ /\ loc' = loc
          /\ pc' = IF args.debug_synchronous THEN "SyncStream" ELSE "done"
       \/ Break("launch failed")
    /\ UNCHANGED <<build, args, prev>>

\* SyncStream(stream), under debug_synchronous only
DoSyncStream ==
    /\ pc = "SyncStream"
    /\ fx' = [fx EXCEPT !.syncs = @ + 1]
    /\ \/ loc' = loc /\ pc' = "done"
       \/ Break("SyncStream failed")
    /\ UNCHANGED <<build, args, prev>>

DispatchStep ==
    \/ DoInitConfigs
    \/ DispatchEntry
    \/ GetDevice
    \/ GetSmVersion
    \/ GetSmCount
    \/ GetOccupancy
    \/ DoAliasTemporaries
    \/ Launch
    \/ PeekAtLastError
    \/ DoSyncStream

\* single calls, every input
Next ==
    \/ Call(Rows, Cols, Nonzeros, Streams, BOOLEAN)
    \/ GetPtxVersion(PtxVersions)
    \/ DispatchStep
    \/ Return(FALSE)

Spec == Init /\ [][Next]_vars

\* a caller that notes the sizes it queried and comes back with them
NextPair ==
    \/ Call({0, 1000, 100000, 2147483000}, {0, 1000}, Nonzeros, {0}, BOOLEAN)
    \/ GetPtxVersion(PtxVersions)
    \/ DispatchStep
    \/ Return(TRUE)

SpecPair == Init /\ [][NextPair]_vars

\* single calls on every PTX version around the thresholds
NextPolicy ==
    \/ Call({0, 1000}, {1000}, {5000}, {0}, BOOLEAN)
    \/ GetPtxVersion(PtxVersionsAll)
    \/ DispatchStep
    \/ Return(FALSE)

SpecPolicy == Init /\ [][NextPolicy]_vars

\* single calls in the host pass and in the device pass of every PTX version
InitArch ==
    /\ build \in BuildsAll
    /\ pc = "idle"
    /\ args = Args0
    /\ loc = Locals0
    /\ fx = Effects0
    /\ prev = NoPrev

NextArch ==
    \/ Call({0, 1000}, {1000}, {5000}, {0}, BOOLEAN)
    \/ GetPtxVersion(PtxVersionsAll)
    \/ DispatchStep
    \/ Return(FALSE)

SpecArch == InitArch /\ [][NextArch]_vars

-----------------------------------------------------------------------------
(* Vocabulary of the claims                                                *)

QueryMode == args.d_temp_storage = "NULL"

ExecuteMode == args.d_temp_storage = "buf"

Returning == pc = "done"

\* the generation of the hardware is known to the call
GenerationKnown == loc.ptx_version > 0 /\ pc \notin {"idle", "PtxVersion"}

\* the failures the runtime can report before the launch
QueryFailures ==
    {"PtxVersion failed", "cudaGetDevice failed", "SmVersion failed",
     "cudaDeviceGetAttribute failed", "MaxSmOccupancy failed"}

RuntimeFailures == QueryFailures \cup {"launch failed", "SyncStream failed"}

\* no launch, no launch-error check, no synchronisation, no sub-region aliased
NothingIssued ==
    /\ fx.launches = <<>>
    /\ fx.peeks = 0
    /\ fx.syncs = 0
    /\ fx.logs = <<>>
    /\ loc.allocations = <<>>

Thresholds == {110, 200, 300, 350, 500}

\* the policy the source attaches to each threshold
PolicyAt(t) ==
    CASE t = 110 -> Policy110
      [] t = 200 -> Policy200
      [] t = 300 -> Policy300
      [] t = 350 -> Policy350
      [] t = 500 -> Policy500

HighestThreshold(g) ==
    CHOOSE t \in Thresholds : t <= g /\ \A u \in Thresholds : u <= g => u <= t

-----------------------------------------------------------------------------
(* C1 *)

\* C1: on a generation below 110 the public Dispatch issues no launch and
\* does not return success (as stated, it returns cudaErrorNotSupported; a
\* call stopped earlier by a failed runtime query is not held against the
\* claim here).  The code drops the status of InitConfigs and goes on with
\* an uninitialised configuration.
C1_UnsupportedHardwareFails ==
    (GenerationKnown /\ loc.ptx_version < 110) =>
        /\ fx.launches = <<>>
        /\ Returning => loc.error # "cudaSuccess"

-----------------------------------------------------------------------------
(* C2 *)

\* C2: on the host path, for every generation g >= 110, InitConfigs succeeds
\* and initialises the configuration from the policy of the largest
\* threshold t <= g.
C2_PolicyOfHighestThreshold ==
    (/\ build.CUB_PTX_ARCH = 0
     /\ loc.ptx_version >= 110
     /\ pc \notin {"idle", "PtxVersion", "InitConfigs"}) =>
        LET P == PolicyAt(HighestThreshold(loc.ptx_version))
        IN  /\ loc.init_error = "cudaSuccess"
            /\ loc.policy = P.name
            /\ loc.agent_spmv_config.block_threads = P.BLOCK_THREADS
            /\ loc.agent_spmv_config.items_per_thread = P.ITEMS_PER_THREAD

\* a generation exactly at a threshold and one just below the next one
C2_Witness ==
    /\ build.CUB_PTX_ARCH = 0
    /\ pc = "Dispatch"
    /\ loc.ptx_version = 350
    /\ loc.policy = "Policy350"
    /\ loc.agent_spmv_config.block_threads = 256

-----------------------------------------------------------------------------
(* C3 *)

\* C3 as stated: every size query writes the byte count and returns
\* success, and issues nothing.
C3_SizeQueryAlwaysSucceeds ==
    QueryMode =>
        /\ NothingIssued
        /\ Returning => (loc.error = "cudaSuccess" /\ fx.written)

\* C3 amended: a size query issues no launch, no launch-error check, no
\* synchronisation and aliases no sub-region; it returns either success
\* with the byte count of the three sub-regions written to
\* temp_storage_bytes, or, with nothing written, the failure of a runtime
\* query made before the sizing (or cudaErrorNotSupported in a build that
\* cannot launch).
C3_SizeQuery ==
    QueryMode =>
        /\ NothingIssued
        /\ Returning =>
              \/ /\ loc.error = "cudaSuccess"
                 /\ fx.written
                 /\ args.temp_storage_bytes = BytesNeeded(loc.allocation_sizes)
                 /\ loc.allocation_sizes =
                       AllocationSizes(loc.agent_spmv_grid_size,
                                       build.sizeof_OffsetT, build.sizeof_ValueT)
              \/ /\ loc.error \in QueryFailures
                 /\ ~fx.written
              \/ /\ loc.error = "cudaErrorNotSupported"
                 /\ ~build.CUB_RUNTIME_ENABLED
                 /\ ~fx.written

\* a size query for 100000 rows that returned success with the size written
C3_Witness ==
    /\ QueryMode
    /\ Returning
    /\ loc.error = "cudaSuccess"
    /\ fx.written
    /\ args.num_rows = 100000
    /\ loc.policy = "Policy500"
    /\ args.temp_storage_bytes # SzZero

-----------------------------------------------------------------------------
(* C4 *)

\* the caller noted a size query for the rows and columns of this call,
\* made under the policy this call resolved
PrevMatches ==
    /\ prev.kind = "query"
    /\ prev.num_rows = args.num_rows
    /\ prev.num_cols = args.num_cols
    /\ loc.policy # "none"
    /\ prev.policy = loc.policy

\* C4: a size query that returns success returns the byte count an earlier
\* size query returned for the same rows and columns under the same
\* resolved policy, whatever calls were made in between, whatever
\* temp_storage_bytes held on entry, and whatever SM count and occupancy the
\* runtime reported (and whatever the nonzero counts were).
C4_SizeQueryDeterministic ==
    (Returning /\ QueryMode /\ loc.error = "cudaSuccess" /\ PrevMatches) =>
        args.temp_storage_bytes = prev.bytes

\* a second size query for 100000 rows, entered with another value in
\* temp_storage_bytes
C4_Witness ==
    /\ pc = "AliasTemporaries"
    /\ QueryMode
    /\ PrevMatches
    /\ args.num_rows = 100000
    /\ args.temp_storage_bytes = SzInc(prev.bytes)
    /\ loc.sm_count = 80

-----------------------------------------------------------------------------
(* C5 *)

TooSmall == ExecuteMode /\ PrevMatches /\ SzLess(args.temp_storage_bytes, prev.bytes)

\* C5 as stated: with a buffer smaller than the queried size the call
\* returns AllocationSizingError, and issues no launch.
C5_TooSmallIsSizingError ==
    TooSmall =>
        /\ fx.launches = <<>>
        /\ Returning => loc.error = "AllocationSizingError"

\* C5 amended: with a buffer smaller than the queried size the call issues
\* no launch (and no launch-error check, no synchronisation, no aliasing)
\* and fails: with AllocationSizingError when every runtime query before the
\* sizing check succeeded, and otherwise with the failure of that query.
C5_TooSmallBufferFails ==
    TooSmall =>
        /\ NothingIssued
        /\ pc \notin {"Launch", "cudaPeekAtLastError", "SyncStream"}
        /\ Returning => loc.error \in ({"AllocationSizingError"} \cup QueryFailures)

\* one byte less than queried for 100000 rows, refused by the sizing check
C5_Witness ==
    /\ TooSmall
    /\ Returning
    /\ args.temp_storage_bytes = SzDec(prev.bytes)
    /\ args.num_rows = 100000
    /\ loc.error = "AllocationSizingError"

-----------------------------------------------------------------------------
(* C6 *)

\* C6: with a buffer of exactly the queried size, a call in which no
\* runtime call fails returns success after exactly one launch and one
\* launch-error check.
C6_ExactBufferSucceeds ==
    (/\ Returning
     /\ ExecuteMode
     /\ PrevMatches
     /\ args.temp_storage_bytes = prev.bytes
     /\ loc.error \notin RuntimeFailures) =>
        /\ loc.error = "cudaSuccess"
        /\ Len(fx.launches) = 1
        /\ fx.launches[1].grid = loc.agent_spmv_grid_size
        /\ fx.peeks = 1

\* an exact buffer for 100000 rows, launched and returned with success
C6_Witness ==
    /\ Returning
    /\ ExecuteMode
    /\ PrevMatches
    /\ args.temp_storage_bytes = prev.bytes
    /\ args.num_rows = 100000
    /\ loc.error = "cudaSuccess"
    /\ Len(fx.launches) = 1

-----------------------------------------------------------------------------
(* C7 *)

\* C7: once the launch-error check has reported a failure, the call is
\* returning that failure: one launch and one check were made and no
\* stream synchronisation, with debug_synchronous or without.
C7_LaunchErrorStopsTheCall ==
    loc.error = "launch failed" =>
        /\ Returning
        /\ Len(fx.launches) = 1
        /\ fx.peeks = 1
        /\ fx.syncs = 0

\* a failed launch under debug_synchronous
C7_Witness ==
    /\ loc.error = "launch failed"
    /\ args.debug_synchronous
    /\ Returning
    /\ fx.syncs = 0

-----------------------------------------------------------------------------
(* C8 *)

\* C8: under a resolved policy the grid size is at least 1, and it is not
\* smaller than the grid size of an earlier size query under the same
\* policy whose work_items were not larger.  The code computes
\* work_items + tile_size - 1 in int, which overflows.
C8_GridSizeMonotone ==
    (pc = "AliasTemporaries" /\ loc.policy # "none") =>
        /\ loc.agent_spmv_grid_size >= 1
        /\ (/\ prev.kind = "query"
            /\ prev.policy = loc.policy
            /\ prev.work_items <= loc.work_items) =>
               prev.grid_size <= loc.agent_spmv_grid_size

-----------------------------------------------------------------------------
(* C9 *)

EmptyProblem == args.num_rows = 0 /\ args.num_cols = 0 /\ args.num_nonzeros = 0

\* C9 as stated: for the empty problem the carry-out sub-regions are empty
\* and the size query returns the bytes of the descriptor only.
C9_EmptyProblemDescriptorOnly ==
    (EmptyProblem /\ loc.policy # "none" /\ Returning /\ QueryMode
        /\ loc.error = "cudaSuccess") =>
        /\ loc.allocation_sizes[1] = SzZero
        /\ loc.allocation_sizes[2] = SzZero
        /\ args.temp_storage_bytes = SzAlign(SzOfInt(GridQueueAllocationSize))

\* C9 amended: for the empty problem under a resolved policy work_items is 1
\* and the grid size is 1, so a successful size query returns the bytes of
\* one carry-out row id, one carry-out partial sum and the descriptor; a
\* call with a buffer of that size passes the sizing check and, unless a
\* runtime call fails, returns success after one launch of one block.
C9_EmptyProblem ==
    (EmptyProblem /\ loc.policy # "none" /\ Returning) =>
        /\ (QueryMode /\ loc.error = "cudaSuccess") =>
              /\ loc.work_items = 1
              /\ loc.agent_spmv_grid_size = 1
              /\ loc.allocation_sizes =
                    <<SzOfInt(build.sizeof_OffsetT), SzOfInt(build.sizeof_ValueT),
                      SzOfInt(GridQueueAllocationSize)>>
              /\ args.temp_storage_bytes = BytesNeeded(loc.allocation_sizes)
        /\ (ExecuteMode /\ PrevMatches /\ args.temp_storage_bytes = prev.bytes) =>
              \/ /\ loc.error = "cudaSuccess"
                 /\ Len(fx.launches) = 1
                 /\ fx.launches[1].grid = 1
              \/ loc.error \in RuntimeFailures

\* the empty problem run with the buffer queried for it
C9_Witness ==
    /\ EmptyProblem
    /\ Returning
    /\ ExecuteMode
    /\ PrevMatches
    /\ args.temp_storage_bytes = prev.bytes
    /\ loc.error = "cudaSuccess"
    /\ Len(fx.launches) = 1

-----------------------------------------------------------------------------
(* C10 *)

\* ceil((a + b) / t) for naturals a, b and t > 0, without forming a + b
CeilDivSum(a, b, t) ==
    (a \div t) + (b \div t) + ((((a % t) + (b % t)) + (t - 1)) \div t)

\* C10: on generation 520 the policy is Policy500 and every launch uses
\* ceil(((num_rows + 1) + num_cols) / (128 * 7)) blocks.  The code's int
\* arithmetic wraps for large num_rows and num_cols.
C10_GridSizeIsCeiling ==
    (loc.ptx_version = 520 /\ fx.launches # <<>>) =>
        /\ loc.policy = "Policy500"
        /\ fx.launches[1].grid =
              CeilDivSum(args.num_rows + 1, args.num_cols,
                         Policy500.BLOCK_THREADS * Policy500.ITEMS_PER_THREAD)

-----------------------------------------------------------------------------
(* C11 *)

\* the launch has been issued and the call is at or past the launch-error check
Launched ==
    \/ pc \in {"cudaPeekAtLastError", "SyncStream"}
    \/ Returning /\ loc.error \in {"cudaSuccess", "launch failed", "SyncStream failed"}

-----------------------------------------------------------------------------
(* C12 *)

\* C12: SyncStream is called only under debug_synchronous and only after a
\* launch-error check that passed, and at most once; without
\* debug_synchronous the call returns right after the launch-error check,
\* has called no SyncStream and never returns a SyncStream failure; under
\* debug_synchronous a SyncStream failure is the status the call returns.
C12_SyncOnlyUnderDebug ==
    /\ fx.syncs <= 1
    /\ (pc = "SyncStream" \/ fx.syncs > 0) =>
          /\ args.debug_synchronous
          /\ Len(fx.launches) = 1
          /\ fx.peeks = 1
          /\ loc.error # "launch failed"
    /\ pc = "SyncStream" => (fx.syncs = 0 /\ loc.error = "cudaSuccess")
    /\ ~args.debug_synchronous =>
          /\ fx.syncs = 0
          /\ pc # "SyncStream"
          /\ loc.error # "SyncStream failed"
          /\ fx.peeks = 1 => Returning
    /\ fx.syncs = 1 =>
          /\ Returning
          /\ loc.error \in {"cudaSuccess", "SyncStream failed"}
    /\ loc.error = "SyncStream failed" => (Returning /\ fx.syncs = 1)

\* a call under debug_synchronous whose synchronisation failed
C12_Witness ==
    /\ args.debug_synchronous
    /\ Returning
    /\ loc.error = "SyncStream failed"
    /\ fx.syncs = 1
    /\ fx.peeks = 1
    /\ Len(fx.launches) = 1

-----------------------------------------------------------------------------
(* C13 *)

\* the occupancy, the grid size and the sub-region sizes were not computed
NotSized ==
    /\ loc.agent_spmv_grid_size = Locals0.agent_spmv_grid_size
    /\ loc.allocation_sizes = Locals0.allocation_sizes
    /\ loc.agent_spmv_occupancy = Locals0.agent_spmv_occupancy

\* C13: once PtxVersion, cudaGetDevice, SmVersion, cudaDeviceGetAttribute or
\* MaxSmOccupancy has failed, the call is returning that call's error and
\* nothing after the failed call has run: temp_storage_bytes was not
\* written, no sub-region was aliased, no launch, launch-error check or
\* synchronisation was issued, and the grid size was not computed; the calls
\* after the failed one were not made.
C13_FailFastBeforeLaunch ==
    loc.error \in QueryFailures =>
        /\ Returning
        /\ ~fx.written
        /\ NothingIssued
        /\ NotSized
        /\ loc.error = "PtxVersion failed" =>
              (build.CUB_PTX_ARCH = 0 /\ loc = [Locals0 EXCEPT !.error = loc.error])
        /\ loc.error \in {"PtxVersion failed", "cudaGetDevice failed",
                          "SmVersion failed", "cudaDeviceGetAttribute failed"} =>
              (loc.sm_count = 0 /\ loc.agent_spmv_sm_occupancy = 0)
        /\ loc.error = "MaxSmOccupancy failed" =>
              (loc.sm_count \in SmCounts /\ loc.agent_spmv_sm_occupancy = 0)

\* a call with a buffer of 1 MiB stopped by a failed MaxSmOccupancy
C13_Witness ==
    /\ ExecuteMode
    /\ Returning
    /\ loc.error = "MaxSmOccupancy failed"
    /\ args.temp_storage_bytes = SzOfInt(1048576)
    /\ args.num_rows = 1000
    /\ fx.launches = <<>>

-----------------------------------------------------------------------------
(* C14 *)

\* the call has computed its grid size and sub-region sizes
Sized ==
    \/ pc \in {"AliasTemporaries", "Launch", "cudaPeekAtLastError", "SyncStream"}
    \/ Returning /\ loc.error \notin (QueryFailures \cup {"cudaErrorNotSupported"})

Policies == {Policy110, Policy200, Policy300, Policy350, Policy500}

\* C14: for the rows, columns and resolved policy of an earlier size query,
\* whatever SM count and SM occupancy the runtime reports in this call, the
\* grid size is the one of that query, the three sub-region sizes are the
\* ones that follow from it, a successful size query reports the same byte
\* count, and a launch uses that grid size with the block size of the policy
\* on the caller's stream; the SM occupancy appears in the log line only.
C14_GridSizeIgnoresOccupancy ==
    (PrevMatches /\ Sized) =>
        /\ loc.agent_spmv_grid_size = prev.grid_size
        /\ loc.allocation_sizes[1] = SzMul(SzOfInt(prev.grid_size), build.sizeof_OffsetT)
        /\ loc.allocation_sizes[2] = SzMul(SzOfInt(prev.grid_size), build.sizeof_ValueT)
        /\ loc.allocation_sizes[3] = SzOfInt(GridQueueAllocationSize)
        /\ (Returning /\ QueryMode /\ loc.error = "cudaSuccess") =>
              args.temp_storage_bytes = prev.bytes
        /\ fx.launches # <<>> =>
              /\ fx.launches[1].grid = prev.grid_size
              /\ \E P \in Policies :
                    P.name = loc.policy /\ fx.launches[1].block = P.BLOCK_THREADS
              /\ fx.launches[1].stream = args.stream
        /\ fx.logs # <<>> =>
              /\ fx.logs[1].grid = prev.grid_size
              /\ fx.logs[1].occupancy = loc.agent_spmv_sm_occupancy

\* 100000 rows launched on a device of 80 SMs with SM occupancy 8, with the
\* grid size of the size query noted before
C14_Witness ==
    /\ PrevMatches
    /\ ExecuteMode
    /\ pc = "cudaPeekAtLastError"
    /\ args.num_rows = 100000
    /\ args.debug_synchronous
    /\ loc.sm_count = 80
    /\ loc.agent_spmv_sm_occupancy = 8
    /\ loc.policy = "Policy500"
    /\ prev.grid_size = 112
    /\ fx.launches[1].grid = 112
    /\ fx.logs[1].occupancy = 8

-----------------------------------------------------------------------------
(* C15 *)

\* C15: in a device pass of generation g the configuration, the policy and
\* the status that InitConfigs gives (the PtxPolicy of the pass) are the
\* ones the host chain of InitConfigs gives for ptx_version = g, for g below
\* 110 too.  The code's #if chain ends in Policy110 for every g below 200,
\* where the host chain returns cudaErrorNotSupported below 110.
C15_CompileTimeSameAsProbed ==
    (build.CUB_PTX_ARCH > 0 /\ pc = "Dispatch") =>
        LET probed == InitConfigs(0, build.CUB_PTX_ARCH, loc.agent_spmv_config)
        IN  /\ loc.init_error = probed.error
            /\ loc.policy = probed.policy
            /\ loc.agent_spmv_config = probed.config

-----------------------------------------------------------------------------
(* C16 *)

\* a + b fits an int, for a and b that are not negative
SumFits(a, b) == b <= INT_MAX - a

\* (num_rows + 1) + num_cols and work_items + tile_size - 1 fit an int
SizingFits ==
    /\ SumFits(args.num_rows, 1)
    /\ SumFits(args.num_rows + 1, args.num_cols)
    /\ SumFits((args.num_rows + 1) + args.num_cols, loc.tile_size - 1)

\* C16: under a resolved policy, a call whose work_items or whose rounding
\* term work_items + tile_size - 1 does not fit an int issues no launch and
\* returns AllocationSizingError, once the runtime queries before the sizing
\* have succeeded.  The code computes both in int without a check and goes
\* on with the wrapped grid size.
C16_OverflowIsReported ==
    (loc.policy # "none" /\ Sized /\ ~SizingFits) =>
        /\ fx.launches = <<>>
        /\ Returning => loc.error = "AllocationSizingError"

-----------------------------------------------------------------------------
(* C17 *)

SzLeq(s, t) == ~SzLess(t, s)

\* the bytes [offset, offset + size) end at or before limit, without
\* passing the end of the address range
EndsBy(offset, size, limit) ==
    /\ SzLeq(offset, SzAdd(offset, size))
    /\ SzLeq(SzAdd(offset, size), limit)

\* C17: a call that aliased its sub-regions has three of them, in the order
\* carry-out row ids, carry-out partial sums, descriptor, of
\* agent_spmv_grid_size * sizeof(OffsetT), agent_spmv_grid_size *
\* sizeof(ValueT) and GridQueueAllocationSize bytes, at offsets that depend
\* on the grid size and the element sizes only; each ends at or before the
\* start of the next, and the last at or before the byte count that the
\* size query for this problem returned.  For a grid size that the int
\* overflow made negative the sizes wrap in size_t and the sub-regions
\* overlap and pass the queried byte count.
C17_ScratchLayout ==
    (PrevMatches /\ loc.allocations # <<>>) =>
        /\ Len(loc.allocations) = 3
        /\ loc.allocation_sizes =
              <<SzMul(SzOfInt(loc.agent_spmv_grid_size), build.sizeof_OffsetT),
                SzMul(SzOfInt(loc.agent_spmv_grid_size), build.sizeof_ValueT),
                SzOfInt(GridQueueAllocationSize)>>
        /\ loc.allocations = AllocationOffsets(loc.allocation_sizes)
        /\ EndsBy(loc.allocations[1], loc.allocation_sizes[1], loc.allocations[2])
        /\ EndsBy(loc.allocations[2], loc.allocation_sizes[2], loc.allocations[3])
        /\ EndsBy(loc.allocations[3], loc.allocation_sizes[3], prev.bytes)
        /\ SzLeq(prev.bytes, args.temp_storage_bytes)

-----------------------------------------------------------------------------
(* C18 *)

\* the internal Dispatch is at, or past, the computation of the grid size
AtGridSize == pc \in {"MaxSmOccupancy", "trapped"} \/ Sized

\* C18: when the internal Dispatch computes the grid size, the
\* configuration it was handed was initialised from one of the policies, so
\* block_threads, items_per_thread and the divisor tile_size are positive.
\* On a generation below 110 InitConfigs initialises nothing and the public
\* Dispatch hands the uninitialised configuration on.
C18_ConfigInitialised ==
    AtGridSize =>
        /\ \E P \in Policies :
              /\ P.name = loc.policy
              /\ loc.agent_spmv_config.block_threads = P.BLOCK_THREADS
              /\ loc.agent_spmv_config.items_per_thread = P.ITEMS_PER_THREAD
        /\ loc.agent_spmv_config.block_threads > 0
        /\ loc.agent_spmv_config.items_per_thread > 0
        /\ loc.tile_size > 0

====
